---- MODULE Spec2Model ----
(***************************************************************************)
(* pykrx-openapi: the request rate limiter (rate_limiter.py), the response *)
(* field converter (converters.py) and the request path of the client      *)
(* (client.py, _make_request).                                             *)
(*                                                                         *)
(* Time is a non-decreasing integer clock read by time.time(); one unit is *)
(* the resolution at which timestamps are compared.  time.sleep(d), called *)
(* right after the clock was read as now, returns at some clock value of   *)
(* at least now + d.                                                       *)
(***************************************************************************)
EXTENDS Integers, Sequences, FiniteSets, TLC

\* ------------------------------------------------------------------ bounds
NumThreads == 2
MaxMaxCalls == 2
MaxPeriod == 2
MaxClock == 2
MaxAcquisitions == 4
MaxLen == 3
MaxFields == 2
MaxRecords == 2
MaxRequests == 3

\* the threads that call the limiter again and again
Threads == 1..NumThreads

\* every thread of the process: those, and one more thread for the runs in
\* which each thread calls the limiter once (a caller that holds the lock
\* while NumThreads others arrive)
AllThreads == 1..(NumThreads + 1)

\* threading.Lock() unlocked; a locked lock holds the thread inside the with
Free == 0

\* the functions decorated with the limiter (two, as in
\* test_rate_limiter_with_different_functions)
Funcs == {"func_a", "func_b"}

VARIABLES
    max_calls,   \* RateLimiter.max_calls
    period,      \* RateLimiter.period
    calls,       \* RateLimiter.calls: the stored call history
    lock,        \* RateLimiter.lock: Free, or the thread inside "with self.lock"
    clock,       \* the value time.time() returns
    pc,          \* per thread: position inside wait_if_needed / wrapper
    entry,       \* per thread: the entry point it is in, "none" outside
    now,         \* per thread: local "now"
    sleep_time,  \* per thread: local "sleep_time", 0 while unassigned
    oldest,      \* per thread: the self.calls[0] read by the wait computation
    exc,         \* per thread: the exception that ended its last call, if any
    recorded_by, \* for each entry of calls, the entry point that appended it
    granted,     \* every timestamp ever appended to calls, in order
    slept,       \* for each entry of granted, whether its call went through time.sleep
    first_call,  \* clock at the start of the first acquisition, -1 before it
    arg_field,   \* convert_field: the argument field_name
    arg_value,   \* convert_field: the argument value
    result,      \* convert_field: what the call returned or raised
    arg_data,    \* convert_response: the argument data
    response,    \* convert_response: what the call returned or raised
    client_pc,   \* KRXOpenAPI: position of the caller inside _make_request
    request,     \* _make_request: the endpoint method called and its bas_dd
    http_response, \* _make_request: what session.get returned or raised
    outcome,     \* _make_request: what the call returned or raised
    sent,        \* the GETs issued by the session, in order
    arrivals     \* for the threads that call once, numbered in the order
                 \* of their calls: what the lock was when each called

limiterVars == <<max_calls, period, calls, lock, clock, pc, entry, now,
                 sleep_time, oldest, exc, recorded_by, granted, slept,
                 first_call>>

converterVars == <<arg_field, arg_value, result, arg_data, response>>

clientVars == <<client_pc, request, http_response, outcome, sent>>

queueVars == <<arrivals>>

vars == <<limiterVars, converterVars, clientVars, queueVars>>

\* ------------------------------------------------- pure parts of the code
\* wait_if_needed, line 70: [c for c in self.calls if c > now - self.period]
PruneKeepsBoundary(c, n, p) == SelectSeq(c, LAMBDA x : x >= n - p)
Prune(c, n, p) == SelectSeq(c, LAMBDA x : x > n - p)

\* wait_if_needed, line 73: len(self.calls) >= self.max_calls
LimitReachedOneEarly(c, m) == Len(c) + 1 >= m
LimitReachedOneLate(c, m) == Len(c) > m
LimitReached(c, m) == Len(c) >= m

\* wait_if_needed, line 74: self.period - (now - self.calls[0])
SleepTimeFromNewest(p, n, c) == p - (n - c[Len(c)])
SleepTimeElapsed(p, n, c) == n - c[1]
SleepTime(p, n, c) == p - (n - c[1])

\* wait_if_needed, line 77: self.calls = []
ResetKeepsHistory(c) == c
Reset(c) == <<>>

\* wait_if_needed, line 80: self.calls.append(time.time())
RecordCallFirst(c, ts) == <<ts>> \o c
RecordCall(c, ts) == Append(c, ts)

\* wrapper, line 44: [c for c in self.calls if c > now - self.period]
WrapperPruneKeepsBoundary(c, n, p) == SelectSeq(c, LAMBDA x : x >= n - p)
WrapperPrune(c, n, p) == SelectSeq(c, LAMBDA x : x > n - p)

\* wrapper, line 47
WrapperLimitReached(c, m) == Len(c) >= m

\* wrapper, line 48
WrapperSleepTime(p, n, c) == p - (n - c[1])

\* wrapper, line 52: self.calls = []
WrapperReset(c) == <<>>

\* who appended the entries that a pruning or a reset of c keeps: kept is a
\* subsequence of c, matched from the newest entry backwards
RECURSIVE KeptBy(_, _, _)
KeptBy(c, by, kept) ==
    IF kept = <<>> \/ c = <<>> THEN <<>>
    ELSE IF c[Len(c)] = kept[Len(kept)]
         THEN Append(KeptBy(SubSeq(c, 1, Len(c) - 1), SubSeq(by, 1, Len(by) - 1),
                            SubSeq(kept, 1, Len(kept) - 1)), by[Len(by)])
         ELSE KeptBy(SubSeq(c, 1, Len(c) - 1), SubSeq(by, 1, Len(by) - 1), kept)

\* ---------------------------------------------------------- converters.py
\* A string is a sequence of one-character strings.  The characters of the
\* enumerated raw values: digits, the thousands separator, the decimal point,
\* the sign, a blank, and the letters of "inf" and "nan".  float() gives a
\* meaning to more characters ("e", "E", "+", "_" and the letters of
\* "infinity"); every string of the alphabet is converted as float() does.
Alphabet == {"0", "1", "5", ",", ".", "-", " ", "i", "n", "f", "a"}

RECURSIVE StringsUpTo(_)
StringsUpTo(n) ==
    IF n = 0 THEN {<<>>}
    ELSE LET shorter == StringsUpTo(n - 1)
         IN  shorter \cup {Append(s, ch) : s \in shorter, ch \in Alphabet}

\* eight-character raw values, as date fields hold them
DateSamples ==
    {<<"2", "0", "2", "4", "0", "1", "0", "1">>,
     <<"2", "0", "2", "4", "0", "2", "2", "9">>,
     <<"2", "0", "2", "3", "0", "2", "2", "9">>,
     <<"2", "0", "2", "4", "0", "2", "3", "0">>,
     <<"2", "0", "2", "4", "1", "3", "0", "1">>,
     <<"0", "0", "0", "0", "0", "1", "0", "1">>,
     <<"2", "0", "2", "4", "0", "1", "0", "a">>,
     <<"2", "0", "2", "4", "0", "4", "3", "1">>}

RawValues == StringsUpTo(MaxLen) \cup DateSamples

\* field names of KRX responses: a date field for each suffix, a date field
\* whose name contains a numeric pattern, volume, price, rate, count, a name
\* with patterns of two categories, a descriptive field whose name contains
\* a numeric pattern, a code, and lower-case names
FieldNames ==
    {<<"B", "A", "S", "_", "D", "D">>,
     <<"L", "I", "S", "T", "_", "D", "T">>,
     <<"E", "X", "P", "_", "D", "A", "T", "E">>,
     <<"S", "T", "A", "R", "T", "_", "D", "D">>,
     <<"A", "C", "C", "_", "T", "R", "D", "V", "O", "L">>,
     <<"C", "L", "S", "P", "R", "C", "_", "I", "D", "X">>,
     <<"F", "L", "U", "C", "_", "R", "T">>,
     <<"L", "I", "S", "T", "_", "C", "N", "T">>,
     <<"V", "O", "L", "_", "R", "T">>,
     <<"I", "D", "X", "_", "N", "M">>,
     <<"I", "S", "U", "_", "C", "D">>,
     <<"t", "r", "d", "v", "o", "l">>,
     <<"b", "a", "s", "_", "d", "d">>}

\* constants.py lines 63-71, in the iteration order of the dict
NUMERIC_FIELD_PATTERNS ==
    <<
       [type |-> "price",
        patterns |-> <<<<"P", "R", "C">>,
                      <<"P", "R", "I", "C", "E">>,
                      <<"C", "L", "S", "P", "R", "C">>,
                      <<"O", "P", "N", "P", "R", "C">>,
                      <<"H", "G", "P", "R", "C">>,
                      <<"L", "W", "P", "R", "C">>,
                      <<"P", "A", "R", "V", "A", "L">>,
                      <<"S", "E", "T", "L", "_", "P", "R", "C">>>>],
       [type |-> "volume",
        patterns |-> <<<<"V", "O", "L">>,
                      <<"T", "R", "D", "V", "O", "L">>,
                      <<"Q", "T", "Y">>,
                      <<"O", "P", "N", "I", "N", "T", "_", "Q", "T", "Y">>,
                      <<"S", "H", "R", "S">>>>],
       [type |-> "amount",
        patterns |-> <<<<"A", "M", "T">>,
                      <<"V", "A", "L">>,
                      <<"T", "R", "D", "V", "A", "L">>,
                      <<"C", "A", "P">>>>],
       [type |-> "index",
        patterns |-> <<<<"I", "D", "X">>,
                      <<"I", "N", "D", "E", "X">>>>],
       [type |-> "rate",
        patterns |-> <<<<"R", "T">>,
                      <<"R", "A", "T", "E">>,
                      <<"F", "L", "U", "C", "_", "R", "T">>>>],
       [type |-> "ratio",
        patterns |-> <<<<"R", "A", "T", "I", "O">>>>],
       [type |-> "count",
        patterns |-> <<<<"C", "N", "T">>,
                      <<"C", "O", "U", "N", "T">>>>]
    >>

\* constants.py line 74
DATE_FIELD_PATTERNS == <<<<"D", "D">>, <<"D", "T">>, <<"D", "A", "T", "E">>>>

Whitespace == {" "}
Digits == <<"0", "1", "2", "3", "4", "5", "6", "7", "8", "9">>
LowerCase == <<"a", "b", "c", "d", "e", "f", "g", "h", "i", "j", "k", "l", "m", "n", "o", "p", "q", "r", "s", "t", "u", "v", "w", "x", "y", "z">>
UpperCase == <<"A", "B", "C", "D", "E", "F", "G", "H", "I", "J", "K", "L", "M", "N", "O", "P", "Q", "R", "S", "T", "U", "V", "W", "X", "Y", "Z">>

\* the values convert_field can return, and the exception it can let through
None == [type |-> "None"]
Str(s) == [type |-> "str", s |-> s]
IntValue(n) == [type |-> "int", n |-> n]
Datetime(y, m, d) == [type |-> "datetime", year |-> y, month |-> m, day |-> d]
Raise(e) == [type |-> "raise", exc |-> e]

\* a finite float sign * num / 10^scale without trailing zeros in num, so
\* that equal floats are equal records; -0.0 keeps its sign
RECURSIVE Finite(_, _, _)
Finite(sign, num, scale) ==
    IF scale > 0 /\ num % 10 = 0 THEN Finite(sign, num \div 10, scale - 1)
    ELSE [type |-> "float", kind |-> "finite", sign |-> sign, num |-> num, scale |-> scale]
Inf(sign) == [type |-> "float", kind |-> "inf", sign |-> sign, num |-> 0, scale |-> 0]
NaN == [type |-> "float", kind |-> "nan", sign |-> 1, num |-> 0, scale |-> 0]

\* str.strip()
RECURSIVE LStrip(_)
LStrip(s) == IF s # <<>> /\ s[1] \in Whitespace THEN LStrip(Tail(s)) ELSE s
RECURSIVE RStrip(_)
RStrip(s) ==
    IF s # <<>> /\ s[Len(s)] \in Whitespace THEN RStrip(SubSeq(s, 1, Len(s) - 1)) ELSE s
Strip(s) == RStrip(LStrip(s))

\* str.replace(",", "")
RemoveCommas(s) == SelectSeq(s, LAMBDA ch : ch # ",")

\* str.upper()
UpperChar(ch) ==
    IF \E i \in DOMAIN LowerCase : LowerCase[i] = ch
    THEN UpperCase[CHOOSE i \in DOMAIN LowerCase : LowerCase[i] = ch]
    ELSE ch
Upper(s) == [i \in DOMAIN s |-> UpperChar(s[i])]
LowerChar(ch) ==
    IF \E i \in DOMAIN UpperCase : UpperCase[i] = ch
    THEN LowerCase[CHOOSE i \in DOMAIN UpperCase : UpperCase[i] = ch]
    ELSE ch
Lower(s) == [i \in DOMAIN s |-> LowerChar(s[i])]

\* str.endswith(suffix) and the "in" operator on strings
EndsWith(s, suffix) ==
    /\ Len(suffix) <= Len(s)
    /\ SubSeq(s, Len(s) - Len(suffix) + 1, Len(s)) = suffix
Contains(s, sub) ==
    \E i \in 1..(Len(s) - Len(sub) + 1) : SubSeq(s, i, i + Len(sub) - 1) = sub

\* str.isdigit() on the characters modelled
IsDigit(ch) == \E i \in DOMAIN Digits : Digits[i] = ch
IsDigits(s) == s # <<>> /\ \A i \in DOMAIN s : IsDigit(s[i])
DigitValue(ch) == (CHOOSE i \in DOMAIN Digits : Digits[i] = ch) - 1
RECURSIVE Decimal(_)
Decimal(s) ==
    IF s = <<>> THEN 0
    ELSE 10 * Decimal(SubSeq(s, 1, Len(s) - 1)) + DigitValue(s[Len(s)])

RECURSIVE Pow10(_)
Pow10(n) == IF n = 0 THEN 1 ELSE 10 * Pow10(n - 1)

\* datetime.strptime(value, "%Y%m%d") on eight digits: the year takes four,
\* month and day two each; ValueError for a date the calendar does not have
IsLeap(y) == (y % 4 = 0 /\ y % 100 # 0) \/ y % 400 = 0
DaysInMonth(y, m) ==
    IF m = 2 THEN (IF IsLeap(y) THEN 29 ELSE 28)
    ELSE IF m \in {4, 6, 9, 11} THEN 30 ELSE 31
Strptime(s) ==
    LET y == Decimal(SubSeq(s, 1, 4))
        m == Decimal(SubSeq(s, 5, 6))
        d == Decimal(SubSeq(s, 7, 8))
    IN  IF y >= 1 /\ m \in 1..12 /\ d >= 1 /\ d <= DaysInMonth(y, m)
        THEN Datetime(y, m, d)
        ELSE Raise("ValueError")

\* float(s): surrounding whitespace is dropped; an optional sign, then
\* "inf", "infinity", "nan" in any case, or digits with at most one point
\* and at least one digit; anything else is a ValueError
ParseFloat(s) ==
    LET t == Strip(s)
        negative == t # <<>> /\ t[1] = "-"
        signed == t # <<>> /\ t[1] \in {"-", "+"}
        body == IF signed THEN Tail(t) ELSE t
        sign == IF negative THEN -1 ELSE 1
        word == Lower(body)
        points == {i \in DOMAIN body : body[i] = "."}
        int_part == IF points = {} THEN body
                    ELSE SubSeq(body, 1, (CHOOSE i \in points : TRUE) - 1)
        frac_part == IF points = {} THEN <<>>
                     ELSE SubSeq(body, (CHOOSE i \in points : TRUE) + 1, Len(body))
    IN  IF word \in {<<"i", "n", "f">>, <<"i", "n", "f", "i", "n", "i", "t", "y">>}
        THEN Inf(sign)
        ELSE IF word = <<"n", "a", "n">> THEN NaN
        ELSE IF /\ Cardinality(points) <= 1
                /\ Len(int_part) + Len(frac_part) >= 1
                /\ \A i \in DOMAIN int_part : IsDigit(int_part[i])
                /\ \A i \in DOMAIN frac_part : IsDigit(frac_part[i])
        THEN Finite(sign, Decimal(int_part \o frac_part), Len(frac_part))
        ELSE Raise("ValueError")

\* int(x) of a float: truncation toward zero; ValueError for nan,
\* OverflowError for an infinity
IntOfFloat(x) ==
    IF x.kind = "nan" THEN Raise("ValueError")
    ELSE IF x.kind = "inf" THEN Raise("OverflowError")
    ELSE IntValue(x.sign * (x.num \div Pow10(x.scale)))

\* converters.py line 20
IsNullValueUnstripped(value) == value = <<>> \/ value = <<"-">>
IsNullValue(value) ==
    value = <<>> \/ Strip(value) = <<>> \/ Strip(value) = <<"-">>

\* converters.py lines 24-32: "date" when the date rule returns a datetime,
\* and otherwise the value falls through
IsDateField(field_name) ==
    \E i \in DOMAIN DATE_FIELD_PATTERNS : EndsWith(field_name, DATE_FIELD_PATTERNS[i])
\* the date rule returning the value as soon as the date does not parse
DateRuleEarlyReturn(field_name, value) ==
    IF IsDateField(field_name)
    THEN IF Len(value) = 8 /\ IsDigits(value) /\ Strptime(value).type # "raise"
         THEN Strptime(value)
         ELSE Str(value)
    ELSE None
DateRule(field_name, value) ==
    IF IsDateField(field_name) /\ Len(value) = 8 /\ IsDigits(value)
    THEN LET parsed == Strptime(value)
         IN  IF parsed.type = "raise" THEN None ELSE parsed
    ELSE None

\* converters.py lines 35-40: the category of the first pattern, in the
\* iteration order of the table, that occurs in the upper-cased field name
MatchingCategories(field_name) ==
    LET field_upper == Upper(field_name)
    IN  {i \in DOMAIN NUMERIC_FIELD_PATTERNS :
            \E j \in DOMAIN NUMERIC_FIELD_PATTERNS[i].patterns :
                Contains(field_upper, NUMERIC_FIELD_PATTERNS[i].patterns[j])}
\* the category of the last matching pattern instead of the first
NumericCategoryLast(field_name) ==
    LET hits == MatchingCategories(field_name)
    IN  IF hits = {} THEN "none"
        ELSE NUMERIC_FIELD_PATTERNS[CHOOSE i \in hits : \A k \in hits : i >= k].type
NumericCategory(field_name) ==
    LET hits == MatchingCategories(field_name)
    IN  IF hits = {} THEN "none"
        ELSE NUMERIC_FIELD_PATTERNS[CHOOSE i \in hits : \A k \in hits : i <= k].type

\* converters.py lines 46-50: int(float(clean_value)) for volume and count,
\* float(clean_value) for the other categories
ToNumber(pattern_type, x) ==
    IF x.type = "raise" THEN x
    ELSE IF pattern_type \in {"volume", "count"} THEN IntOfFloat(x)
    ELSE x

\* converters.py lines 51-53: except (ValueError, AttributeError) returns the
\* value; any other exception leaves convert_field
ExceptValueError(number, value) ==
    IF number.type = "raise" /\ number.exc \in {"ValueError", "AttributeError"}
    THEN Str(value)
    ELSE number

\* converters.py lines 42-53
NumericRule(pattern_type, value) ==
    ExceptValueError(ToNumber(pattern_type, ParseFloat(Strip(RemoveCommas(value)))), value)

\* the numeric rule tried before the date rule
ConvertFieldNumericFirst(field_name, value) ==
    LET date == DateRule(field_name, value)
        pattern_type == NumericCategory(field_name)
    IN  IF IsNullValue(value) THEN None
        ELSE IF pattern_type # "none" THEN NumericRule(pattern_type, value)
        ELSE IF date # None THEN date
        ELSE Str(value)

\* converters.py lines 8-56
convert_field(field_name, value) ==
    LET date == DateRule(field_name, value)
        pattern_type == NumericCategory(field_name)
    IN  IF IsNullValue(value) THEN None
        ELSE IF date # None THEN date
        ELSE IF pattern_type # "none" THEN NumericRule(pattern_type, value)
        ELSE Str(value)

\* ------------------------------------------------------------------- Init
\* no conversion has been called
NotCalled == [type |-> "not called"]
ConverterNotCalled ==
    /\ arg_field = <<>>
    /\ arg_value = <<>>
    /\ result = NotCalled
    /\ arg_data = <<>>
    /\ response = NotCalled

\* no endpoint method has been called
NoRequest == [type |-> "no request"]
ClientNotCalled ==
    /\ client_pc = "idle"
    /\ request = NoRequest
    /\ http_response = NotCalled
    /\ outcome = NotCalled
    /\ sent = <<>>

\* no thread has made its one call
NoArrival == arrivals = <<>>

\* RateLimiter.__init__: an empty history and an unlocked lock; no caller yet
LimiterCreated ==
    /\ calls = <<>>
    /\ lock = Free
    /\ clock = 0
    /\ pc = [t \in AllThreads |-> "idle"]
    /\ entry = [t \in AllThreads |-> "none"]
    /\ now = [t \in AllThreads |-> 0]
    /\ sleep_time = [t \in AllThreads |-> 0]
    /\ oldest = [t \in AllThreads |-> 0]
    /\ exc = [t \in AllThreads |-> "none"]
    /\ recorded_by = <<>>
    /\ granted = <<>>
    /\ slept = <<>>
    /\ first_call = -1

\* RateLimiter.__init__ stores any max_calls and period
Init ==
    /\ max_calls \in 0..MaxMaxCalls
    /\ period \in 0..MaxPeriod
    /\ LimiterCreated
    /\ ConverterNotCalled
    /\ ClientNotCalled
    /\ NoArrival

\* calls that have started and not ended
InFlight == Cardinality({t \in AllThreads : pc[t] # "idle"})

\* ---------------------------------------------------------------- actions
\* the call of thread t ends: its locals (now, sleep_time) and the value it
\* read from calls[0] do not outlive it
CallEnds(t) ==
    /\ entry' = [entry EXCEPT ![t] = "none"]
    /\ now' = [now EXCEPT ![t] = 0]
    /\ sleep_time' = [sleep_time EXCEPT ![t] = 0]
    /\ oldest' = [oldest EXCEPT ![t] = 0]

\* time passes
Tick ==
    /\ clock < MaxClock
    /\ clock' = clock + 1
    /\ UNCHANGED <<max_calls, period, calls, lock, pc, entry, now,
                   sleep_time, oldest, exc, recorded_by, granted, slept, first_call>>
    /\ UNCHANGED <<converterVars, clientVars, queueVars>>

\* a lock that never blocks
LockNeverBlocks(l) == TRUE

\* "with self.lock" goes on when no thread holds the lock
CanAcquire(l) == l = Free

\* a thread calls entry point e and blocks at "with self.lock"
CallLimiter(t, e) ==
    /\ pc[t] = "idle"
    /\ Len(granted) + InFlight < MaxAcquisitions
    /\ pc' = [pc EXCEPT ![t] = "lock"]
    /\ entry' = [entry EXCEPT ![t] = e]
    /\ exc' = [exc EXCEPT ![t] = "none"]
    /\ first_call' = IF first_call = -1 THEN clock ELSE first_call
    /\ UNCHANGED <<max_calls, period, calls, lock, clock, now, sleep_time,
                   oldest, recorded_by, granted, slept>>

Call(t, e) ==
    /\ CallLimiter(t, e)
    /\ UNCHANGED <<converterVars, clientVars, queueVars>>

\* limiter.wait_if_needed()
CallWaitIfNeeded(t) == Call(t, "wait_if_needed")

\* a call of a function decorated with the limiter
CallWrapper(t) == \E f \in Funcs : Call(t, f)

\* a sleep outside the with block: the lock is released for the wait
LockDroppedDuringSleep(t) == Free

\* wait_if_needed lines 66 and 76: time.sleep is called inside "with
\* self.lock", so the lock stays with the sleeping thread
LockDuringSleep(t) == t

\* wait_if_needed lines 66-76: take the lock, read the clock, prune, test the
\* limit, compute the wait and call time.sleep; self.calls[0] on an empty
\* list raises IndexError, which leaves the with block and releases the lock
WaitIfNeededEnter(t) ==
    /\ pc[t] = "lock"
    /\ entry[t] = "wait_if_needed"
    /\ CanAcquire(lock)
    /\ LET pruned == Prune(calls, clock, period)
           by == KeptBy(calls, recorded_by, pruned)
       IN  /\ calls' = pruned
           /\ recorded_by' = by
           /\ IF ~LimitReached(pruned, max_calls)
              THEN /\ lock' = t
                   /\ now' = [now EXCEPT ![t] = clock]
                   /\ pc' = [pc EXCEPT ![t] = "record"]
                   /\ UNCHANGED <<entry, sleep_time, oldest, exc>>
              ELSE IF pruned = <<>>
              THEN /\ lock' = Free
                   /\ pc' = [pc EXCEPT ![t] = "idle"]
                   /\ exc' = [exc EXCEPT ![t] = "IndexError"]
                   /\ CallEnds(t)
              ELSE /\ now' = [now EXCEPT ![t] = clock]
                   /\ sleep_time' = [sleep_time EXCEPT ![t] = SleepTime(period, clock, pruned)]
                   /\ lock' = IF sleep_time'[t] > 0 THEN LockDuringSleep(t) ELSE t
                   /\ oldest' = [oldest EXCEPT ![t] = pruned[1]]
                   /\ pc' = [pc EXCEPT ![t] = IF sleep_time'[t] > 0 THEN "sleep" ELSE "record"]
                   /\ UNCHANGED <<entry, exc>>
    /\ UNCHANGED <<max_calls, period, clock, granted, slept, first_call>>
    /\ UNCHANGED <<converterVars, clientVars, queueVars>>

\* wait_if_needed lines 76-77: time.sleep returns, the history is reset
WaitIfNeededWake(t) ==
    /\ pc[t] = "sleep"
    /\ entry[t] = "wait_if_needed"
    /\ clock >= now[t] + sleep_time[t]
    /\ calls' = Reset(calls)
    /\ recorded_by' = KeptBy(calls, recorded_by, calls')
    /\ pc' = [pc EXCEPT ![t] = "record"]
    /\ UNCHANGED <<max_calls, period, lock, clock, entry, now, sleep_time,
                   oldest, exc, granted, slept, first_call>>
    /\ UNCHANGED <<converterVars, clientVars, queueVars>>

\* wait_if_needed line 80: record this call
WaitIfNeededRecord(t) ==
    /\ pc[t] = "record"
    /\ entry[t] = "wait_if_needed"
    /\ calls' = RecordCall(calls, clock)
    /\ recorded_by' = Append(recorded_by, entry[t])
    /\ granted' = Append(granted, clock)
    /\ slept' = Append(slept, sleep_time[t] > 0)
    /\ pc' = [pc EXCEPT ![t] = "exit"]
    /\ UNCHANGED <<max_calls, period, lock, clock, entry, now, sleep_time,
                   oldest, exc, first_call>>
    /\ UNCHANGED <<converterVars, clientVars, queueVars>>

\* a return that leaves the lock with the thread that has left
WaitIfNeededReturnKeepsLock(t) ==
    /\ pc[t] = "exit"
    /\ pc' = [pc EXCEPT ![t] = "idle"]
    /\ CallEnds(t)
    /\ UNCHANGED <<max_calls, period, calls, lock, clock, exc, recorded_by,
                   granted, slept, first_call>>
    /\ UNCHANGED <<converterVars, clientVars, queueVars>>

\* wait_if_needed: the with block ends and the method returns
WaitIfNeededReturn(t) ==
    /\ pc[t] = "exit"
    /\ lock' = Free
    /\ pc' = [pc EXCEPT ![t] = "idle"]
    /\ CallEnds(t)
    /\ UNCHANGED <<max_calls, period, calls, clock, exc, recorded_by,
                   granted, slept, first_call>>
    /\ UNCHANGED <<converterVars, clientVars, queueVars>>

\* wrapper lines 40-50
WrapperEnter(t) ==
    /\ pc[t] = "lock"
    /\ entry[t] \in Funcs
    /\ CanAcquire(lock)
    /\ LET pruned == WrapperPrune(calls, clock, period)
           by == KeptBy(calls, recorded_by, pruned)
       IN  /\ calls' = pruned
           /\ recorded_by' = by
           /\ IF ~WrapperLimitReached(pruned, max_calls)
              THEN /\ lock' = t
                   /\ now' = [now EXCEPT ![t] = clock]
                   /\ pc' = [pc EXCEPT ![t] = "record"]
                   /\ UNCHANGED <<entry, sleep_time, oldest, exc>>
              ELSE IF pruned = <<>>
              THEN /\ lock' = Free
                   /\ pc' = [pc EXCEPT ![t] = "idle"]
                   /\ exc' = [exc EXCEPT ![t] = "IndexError"]
                   /\ CallEnds(t)
              ELSE /\ lock' = t
                   /\ now' = [now EXCEPT ![t] = clock]
                   /\ sleep_time' = [sleep_time EXCEPT ![t] = WrapperSleepTime(period, clock, pruned)]
                   /\ oldest' = [oldest EXCEPT ![t] = pruned[1]]
                   /\ pc' = [pc EXCEPT ![t] = IF sleep_time'[t] > 0 THEN "sleep" ELSE "record"]
                   /\ UNCHANGED <<entry, exc>>
    /\ UNCHANGED <<max_calls, period, clock, granted, slept, first_call>>
    /\ UNCHANGED <<converterVars, clientVars, queueVars>>

\* wrapper lines 50-52
WrapperWake(t) ==
    /\ pc[t] = "sleep"
    /\ entry[t] \in Funcs
    /\ clock >= now[t] + sleep_time[t]
    /\ calls' = WrapperReset(calls)
    /\ recorded_by' = KeptBy(calls, recorded_by, calls')
    /\ pc' = [pc EXCEPT ![t] = "record"]
    /\ UNCHANGED <<max_calls, period, lock, clock, entry, now, sleep_time,
                   oldest, exc, granted, slept, first_call>>
    /\ UNCHANGED <<converterVars, clientVars, queueVars>>

\* wrapper line 55, then func(*args, **kwargs) starts with the lock held
WrapperRecord(t) ==
    /\ pc[t] = "record"
    /\ entry[t] \in Funcs
    /\ calls' = Append(calls, clock)
    /\ recorded_by' = Append(recorded_by, entry[t])
    /\ granted' = Append(granted, clock)
    /\ slept' = Append(slept, sleep_time[t] > 0)
    /\ pc' = [pc EXCEPT ![t] = "body"]
    /\ UNCHANGED <<max_calls, period, lock, clock, entry, now, sleep_time,
                   oldest, exc, first_call>>
    /\ UNCHANGED <<converterVars, clientVars, queueVars>>

\* wrapper line 56: func returns, the with block ends
WrapperReturn(t) ==
    /\ pc[t] = "body"
    /\ lock' = Free
    /\ pc' = [pc EXCEPT ![t] = "idle"]
    /\ CallEnds(t)
    /\ UNCHANGED <<max_calls, period, calls, clock, exc, recorded_by,
                   granted, slept, first_call>>
    /\ UNCHANGED <<converterVars, clientVars, queueVars>>

\* an exception of func that leaves the lock with the thread that has left
WrapperRaiseKeepsLock(t) ==
    /\ pc[t] = "body"
    /\ pc' = [pc EXCEPT ![t] = "idle"]
    /\ exc' = [exc EXCEPT ![t] = "func"]
    /\ CallEnds(t)
    /\ UNCHANGED <<max_calls, period, calls, lock, clock, recorded_by,
                   granted, slept, first_call>>
    /\ UNCHANGED <<converterVars, clientVars, queueVars>>

\* wrapper line 56: func raises, the with block ends
WrapperRaise(t) ==
    /\ pc[t] = "body"
    /\ lock' = Free
    /\ pc' = [pc EXCEPT ![t] = "idle"]
    /\ exc' = [exc EXCEPT ![t] = "func"]
    /\ CallEnds(t)
    /\ UNCHANGED <<max_calls, period, calls, clock, recorded_by, granted, slept,
                   first_call>>
    /\ UNCHANGED <<converterVars, clientVars, queueVars>>

Next ==
    \/ Tick
    \/ \E t \in Threads : CallWaitIfNeeded(t)
    \/ \E t \in Threads : CallWrapper(t)
    \/ \E t \in Threads : WaitIfNeededEnter(t)
    \/ \E t \in Threads : WaitIfNeededWake(t)
    \/ \E t \in Threads : WaitIfNeededRecord(t)
    \/ \E t \in Threads : WaitIfNeededReturn(t)
    \/ \E t \in Threads : WrapperEnter(t)
    \/ \E t \in Threads : WrapperWake(t)
    \/ \E t \in Threads : WrapperRecord(t)
    \/ \E t \in Threads : WrapperReturn(t)
    \/ \E t \in Threads : WrapperRaise(t)

Spec == Init /\ [][Next]_vars

\* ------------------------------------------------- conversion of one field
\* the limiter of a process that only converts: constructed, never called
LimiterUnused ==
    /\ max_calls = 1
    /\ period = 1
    /\ LimiterCreated

InitField ==
    /\ LimiterUnused
    /\ arg_field \in FieldNames
    /\ arg_value \in RawValues
    /\ result = NotCalled
    /\ arg_data = <<>>
    /\ response = NotCalled
    /\ ClientNotCalled
    /\ NoArrival

\* convert_field(field_name, value)
ConvertField ==
    /\ result = NotCalled
    /\ result' = convert_field(arg_field, arg_value)
    /\ UNCHANGED <<arg_field, arg_value, arg_data, response>>
    /\ UNCHANGED <<limiterVars, clientVars, queueVars>>

NextField == ConvertField

SpecField == InitField /\ [][NextField]_vars

\* ------------------------------------------------ conversion of a response
\* an exception leaves a comprehension at the first element that raises
FirstRaised(values) ==
    values[CHOOSE i \in DOMAIN values :
              /\ values[i].type = "raise"
              /\ \A k \in 1..(i - 1) : values[k].type # "raise"]

\* converters.py lines 59-72: a record is the sequence of its items, in
\* insertion order
RecordOf(record, values) ==
    IF \E i \in DOMAIN values : values[i].type = "raise"
    THEN FirstRaised(values)
    ELSE [type |-> "dict",
          items |-> [i \in DOMAIN record |-> [field |-> record[i].field, value |-> values[i]]]]
convert_record(record) ==
    RecordOf(record,
             [i \in DOMAIN record |-> convert_field(record[i].field, record[i].value)])

\* converters.py lines 75-85
ListOf(dicts) ==
    IF \E i \in DOMAIN dicts : dicts[i].type = "raise"
    THEN FirstRaised(dicts)
    ELSE [type |-> "list", items |-> [i \in DOMAIN dicts |-> dicts[i].items]]
convert_response(records) ==
    ListOf([i \in DOMAIN records |-> convert_record(records[i])])

\* the items responses are built from
SampleItems ==
    {[field |-> <<"B", "A", "S", "_", "D", "D">>,
      value |-> <<"2", "0", "2", "4", "0", "1", "0", "1">>],
     [field |-> <<"A", "C", "C", "_", "T", "R", "D", "V", "O", "L">>,
      value |-> <<"1", ",", "5">>],
     [field |-> <<"A", "C", "C", "_", "T", "R", "D", "V", "O", "L">>,
      value |-> <<"i", "n", "f">>],
     [field |-> <<"C", "L", "S", "P", "R", "C", "_", "I", "D", "X">>,
      value |-> <<"1", ".", "5">>],
     [field |-> <<"I", "D", "X", "_", "N", "M">>,
      value |-> <<"-">>]}

RECURSIVE SeqsUpTo(_, _)
SeqsUpTo(S, n) ==
    IF n = 0 THEN {<<>>}
    ELSE LET shorter == SeqsUpTo(S, n - 1)
         IN  shorter \cup {Append(s, x) : s \in shorter, x \in S}

\* a dict has each key once
Records ==
    {r \in SeqsUpTo(SampleItems, MaxFields) :
        \A i, j \in DOMAIN r : i # j => r[i].field # r[j].field}

InitResponse ==
    /\ LimiterUnused
    /\ arg_field = <<>>
    /\ arg_value = <<>>
    /\ result = NotCalled
    /\ arg_data \in SeqsUpTo(Records, MaxRecords)
    /\ response = NotCalled
    /\ ClientNotCalled
    /\ NoArrival

\* convert_response(data)
ConvertResponse ==
    /\ response = NotCalled
    /\ response' = convert_response(arg_data)
    /\ UNCHANGED <<arg_field, arg_value, result, arg_data>>
    /\ UNCHANGED <<limiterVars, clientVars, queueVars>>

NextResponse == ConvertResponse

SpecResponse == InitResponse /\ [][NextResponse]_vars

\* -------------------------------------------------------------- client.py
\* the thread that calls the endpoint methods of the client
ClientThread == 1

\* two of the 31 endpoint methods, lines 157-539; each of them is
\* return self._make_request(category, endpoint, bas_dd)
EndpointMethods ==
    {[method |-> "get_kospi_daily_trade", category |-> "idx", endpoint |-> "kospi_dd_trd"],
     [method |-> "get_stock_daily_trade", category |-> "sto", endpoint |-> "stk_bydd_trd"]}

\* bas_dd arguments: eight digits, seven digits, nine digits, a letter among
\* the digits, and eight digits followed by a newline
BasDds ==
    {<<"2", "0", "2", "4", "0", "1", "0", "1">>,
     <<"2", "0", "2", "4", "0", "1", "0">>,
     <<"2", "0", "2", "4", "0", "1", "0", "1", "1">>,
     <<"2", "0", "2", "4", "0", "1", "0", "a">>,
     <<"2", "0", "2", "4", "0", "1", "0", "1", "\n">>}

\* line 96, re.match(r"^\d{8}$", bas_dd): eight digits from the start, and
\* then the end of the string; $ also matches before a newline that ends
\* the string
DateFormatMatches(bas_dd) ==
    /\ Len(bas_dd) \in {8, 9}
    /\ \A i \in 1..8 : IsDigit(bas_dd[i])
    /\ Len(bas_dd) = 9 => bas_dd[9] = "\n"

\* the body of a response as response.json() reads it: no JSON, or a JSON
\* object with or without the key OutBlock_1, or a JSON array (without the
\* element "OutBlock_1"), or the JSON value null
Body(json, has_outblock, outblock) ==
    [json |-> json, has_outblock |-> has_outblock, OutBlock_1 |-> outblock]

\* the record lists of the responses
OutBlocks ==
    {<<>>,
     << <<[field |-> <<"B", "A", "S", "_", "D", "D">>,
           value |-> <<"2", "0", "2", "4", "0", "1", "0", "1">>],
          [field |-> <<"A", "C", "C", "_", "T", "R", "D", "V", "O", "L">>,
           value |-> <<"1", ",", "5">>]>> >>,
     << <<[field |-> <<"A", "C", "C", "_", "T", "R", "D", "V", "O", "L">>,
           value |-> <<"i", "n", "f">>]>> >>}

Bodies ==
    {Body("invalid", FALSE, <<>>), Body("array", FALSE, <<>>),
     Body("null", FALSE, <<>>), Body("object", FALSE, <<>>)}
        \cup {Body("object", TRUE, data) : data \in OutBlocks}

\* what session.get(url, params, timeout) returns or raises: a response
\* with status 200 and any body, a response with another status and an
\* error page or a JSON object, or an exception of requests
HttpResults ==
    {[kind |-> "response", status_code |-> 200, body |-> b, exc |-> "none"] : b \in Bodies}
        \cup {[kind |-> "response", status_code |-> code, body |-> b, exc |-> "none"] :
                 code \in {302, 401, 404, 429, 500, 599},
                 b \in {Body("invalid", FALSE, <<>>), Body("object", TRUE, <<>>)}}
        \cup {[kind |-> "exception", status_code |-> 0, body |-> Body("invalid", FALSE, <<>>),
               exc |-> e] : e \in {"Timeout", "ConnectionError", "TooManyRedirects"}}

\* the dict _make_request returns
Returned(outblock) == [type |-> "dict", OutBlock_1 |-> outblock]

\* lines 140-144: data with the converted OutBlock_1, unless the conversion
\* raised
ReturnData(converted) ==
    IF converted.type = "raise" THEN converted ELSE Returned(converted.items)

\* lines 115-144, the try block: the exception raised by session.get, the
\* exception raised for the status code, by raise_for_status (400-599), by
\* response.json(), by the test of line 133 on a value that is no container,
\* by data.keys() at line 135 on a list, by convert_response; or the dict
TryBlock(r) ==
    IF r.kind = "exception" THEN Raise(r.exc)
    ELSE IF r.status_code = 401 THEN Raise("KRXAuthenticationError")
    ELSE IF r.status_code = 429 THEN Raise("KRXRateLimitError")
    ELSE IF 500 <= r.status_code /\ r.status_code < 600 THEN Raise("KRXServerError")
    ELSE IF 400 <= r.status_code /\ r.status_code < 600 THEN Raise("HTTPError")
    ELSE IF r.body.json = "invalid" THEN Raise("JSONDecodeError")
    ELSE IF r.body.json = "null" THEN Raise("TypeError")
    ELSE IF r.body.json = "array" THEN Raise("AttributeError")
    ELSE IF ~r.body.has_outblock THEN Returned(<<>>)
    ELSE ReturnData(convert_response(r.body.OutBlock_1))

\* the exceptions that are a requests.exceptions.RequestException
RequestExceptions ==
    {"Timeout", "ConnectionError", "HTTPError", "TooManyRedirects", "JSONDecodeError"}

\* lines 146-153, the except clauses in their order; the JSONDecodeError of
\* requests is a json.JSONDecodeError; an exception no clause names leaves
\* _make_request as it is
ExceptClauses(e) ==
    IF e = "JSONDecodeError" THEN "KRXAPIError"
    ELSE IF e = "Timeout" THEN "KRXNetworkError"
    ELSE IF e = "ConnectionError" THEN "KRXNetworkError"
    ELSE IF e \in RequestExceptions THEN "KRXNetworkError"
    ELSE e

\* lines 146-153 applied to what the try block gave
Handled(tried) ==
    IF tried.type = "raise" THEN Raise(ExceptClauses(tried.exc)) ELSE tried

\* lines 113-153
HandleResponse(r) == Handled(TryBlock(r))

\* KRXOpenAPI.__init__, line 65: one RateLimiter(rate_limit, per_seconds)
InitClient ==
    /\ max_calls \in 0..MaxMaxCalls
    /\ period \in 0..MaxPeriod
    /\ LimiterCreated
    /\ ConverterNotCalled
    /\ ClientNotCalled
    /\ NoArrival

\* an endpoint method is called: _make_request lines 95-102, the test of
\* the date format and the call of self.rate_limiter.wait_if_needed()
EndpointCall(m, bas_dd) ==
    /\ client_pc = "idle"
    /\ request' = [method |-> m.method, category |-> m.category,
                   endpoint |-> m.endpoint, bas_dd |-> bas_dd]
    /\ http_response' = NotCalled
    /\ IF ~DateFormatMatches(bas_dd)
       THEN /\ outcome' = Raise("KRXInvalidDateError")
            /\ UNCHANGED <<client_pc, sent>>
            /\ UNCHANGED limiterVars
       ELSE /\ Len(sent) < MaxRequests
            /\ CallLimiter(ClientThread, "wait_if_needed")
            /\ client_pc' = "acquire"
            /\ outcome' = NotCalled
            /\ UNCHANGED sent
    /\ UNCHANGED <<converterVars, queueVars>>

\* the GET is sent before wait_if_needed has returned
AcquisitionNotAwaited(t) == exc[t] = "none"

\* line 102: wait_if_needed has returned
AcquisitionReturned(t) == pc[t] = "idle" /\ exc[t] = "none"

\* lines 104-153: the GET, and what becomes of its result
SendRequest ==
    /\ client_pc = "acquire"
    /\ AcquisitionReturned(ClientThread)
    /\ sent' = Append(sent, <<request.category, request.endpoint>>)
    /\ \E r \in HttpResults :
          /\ http_response' = r
          /\ outcome' = HandleResponse(r)
    /\ client_pc' = "idle"
    /\ UNCHANGED request
    /\ UNCHANGED <<limiterVars, converterVars, queueVars>>

\* line 102: wait_if_needed has raised, the exception leaves _make_request
AcquisitionRaises ==
    /\ client_pc = "acquire"
    /\ pc[ClientThread] = "idle"
    /\ exc[ClientThread] # "none"
    /\ outcome' = Raise(exc[ClientThread])
    /\ client_pc' = "idle"
    /\ UNCHANGED <<request, http_response, sent>>
    /\ UNCHANGED <<limiterVars, converterVars, queueVars>>

NextClient ==
    \/ \E m \in EndpointMethods : \E bas_dd \in BasDds : EndpointCall(m, bas_dd)
    \/ WaitIfNeededEnter(ClientThread)
    \/ WaitIfNeededWake(ClientThread)
    \/ WaitIfNeededRecord(ClientThread)
    \/ WaitIfNeededReturn(ClientThread)
    \/ SendRequest
    \/ AcquisitionRaises
    \/ Tick

SpecClient == InitClient /\ [][NextClient]_vars


\* ------------------------------------------------ threads that call once
\* thread t has made its call
HasCalled(t) == t <= Len(arrivals)

\* the next thread calls limiter.wait_if_needed(), once in its life; the
\* call is noted with what the lock was when it was made
CallOnce(t) ==
    /\ t = Len(arrivals) + 1
    /\ CallLimiter(t, "wait_if_needed")
    /\ arrivals' = Append(arrivals, lock)
    /\ UNCHANGED <<converterVars, clientVars>>

\* time passes beyond MaxClock for as long as a time.sleep has not returned
SleepTick ==
    /\ clock >= MaxClock
    /\ \E t \in AllThreads : pc[t] = "sleep" /\ clock < now[t] + sleep_time[t]
    /\ clock' = clock + 1
    /\ UNCHANGED <<max_calls, period, calls, lock, pc, entry, now,
                   sleep_time, oldest, exc, recorded_by, granted, slept, first_call>>
    /\ UNCHANGED <<converterVars, clientVars, queueVars>>

NextCallers ==
    \/ Tick
    \/ SleepTick
    \/ \E t \in AllThreads : CallOnce(t)
    \/ \E t \in AllThreads : WaitIfNeededEnter(t)
    \/ \E t \in AllThreads : WaitIfNeededWake(t)
    \/ \E t \in AllThreads : WaitIfNeededRecord(t)
    \/ \E t \in AllThreads : WaitIfNeededReturn(t)

SpecCallers == Init /\ [][NextCallers]_vars

\* NumThreads threads that call once
NextFair ==
    \/ Tick
    \/ SleepTick
    \/ \E t \in Threads : CallOnce(t)
    \/ \E t \in Threads : WaitIfNeededEnter(t)
    \/ \E t \in Threads : WaitIfNeededWake(t)
    \/ \E t \in Threads : WaitIfNeededRecord(t)
    \/ \E t \in Threads : WaitIfNeededReturn(t)

\* those threads under a scheduler that lets time pass, lets a thread that
\* can run go on, and grants the lock fairly: a thread that can take the
\* lock again and again does take it
FairSpec ==
    /\ Init
    /\ [][NextFair]_vars
    /\ WF_vars(Tick)
    /\ WF_vars(SleepTick)
    /\ \A t \in Threads : SF_vars(WaitIfNeededEnter(t))
    /\ \A t \in Threads : WF_vars(WaitIfNeededWake(t))
    /\ \A t \in Threads : WF_vars(WaitIfNeededRecord(t))
    /\ \A t \in Threads : WF_vars(WaitIfNeededReturn(t))

\* ------------------------------------------------------------- the client
\* the string is exactly eight decimal digits
EightDecimalDigits(s) == Len(s) = 8 /\ \A i \in 1..8 : IsDigit(s[i])

\* one step of the client thread, as C17 wants it: a call whose bas_dd is
\* not eight decimal digits ends at once with KRXInvalidDateError and leaves
\* the limiter and the GETs sent as they were
C17_StepRejectsInvalidDate ==
    (/\ client_pc = "idle"
     /\ <<request, outcome, client_pc>>' # <<request, outcome, client_pc>>
     /\ ~EightDecimalDigits(request'.bas_dd)) =>
        /\ outcome' = Raise("KRXInvalidDateError")
        /\ client_pc' = "idle"
        /\ UNCHANGED <<limiterVars, sent>>

\* C17: a request whose bas_dd is not exactly eight decimal digits is
\* rejected with KRXInvalidDateError before the rate limiter is called and
\* before a GET is sent, whichever endpoint method is called.
C17_InvalidDateRejected == [][C17_StepRejectsInvalidDate]_vars

\* one step of the client thread, as C18 wants it
C18_StepAcquiresOnceBeforeGet ==
    /\ (client_pc = "idle" /\ client_pc' = "acquire") =>
          /\ Len(granted) = Len(sent)
          /\ pc[ClientThread] = "idle"
          /\ pc'[ClientThread] = "lock"
          /\ entry'[ClientThread] = "wait_if_needed"
    /\ sent' # sent =>
          /\ client_pc = "acquire"
          /\ pc[ClientThread] = "idle"
          /\ exc[ClientThread] = "none"
          /\ lock = Free
          /\ Len(granted) = Len(sent) + 1
          /\ Len(sent') = Len(sent) + 1
          /\ UNCHANGED limiterVars
    /\ (client_pc = "acquire" /\ client_pc' = "idle") =>
          \/ sent' # sent
          \/ exc[ClientThread] # "none" /\ UNCHANGED granted

\* C18: a request that has passed the date test calls wait_if_needed of the
\* one limiter of the client once, whichever endpoint method it came
\* through; the GET is sent after that acquisition has returned and released
\* the lock, every GET has an acquisition of its own before it, and a
\* request ends without a GET only when the acquisition raised.
C18_OneAcquisitionBeforeGet == [][C18_StepAcquiresOnceBeforeGet]_vars

\* two GETs to different endpoints with a limit of one call: the second was
\* recorded a full period after the first, on the same history
C18_Witness ==
    /\ max_calls = 1
    /\ period = 2
    /\ Len(sent) = 2
    /\ sent[1] # sent[2]
    /\ granted = <<0, 2>>
    /\ calls = <<2>>
    /\ client_pc = "idle"

\* the request has ended and the GET was answered by r
Answered(r) == client_pc = "idle" /\ http_response = r

\* C19: the outcome of a request that was sent follows from what the
\* transport gave back: 401 raises KRXAuthenticationError, 429
\* KRXRateLimitError, 500-599 KRXServerError, a timeout or a connection
\* failure KRXNetworkError, a body that is not JSON KRXAPIError, and a JSON
\* body without OutBlock_1 returns the dict with an empty OutBlock_1.
C19_OutcomeByTransport ==
    \A r \in HttpResults :
        Answered(r) =>
            /\ (r.kind = "exception" /\ r.exc \in {"Timeout", "ConnectionError"}) =>
                  outcome = Raise("KRXNetworkError")
            /\ (r.kind = "response" /\ r.status_code = 401) =>
                  outcome = Raise("KRXAuthenticationError")
            /\ (r.kind = "response" /\ r.status_code = 429) =>
                  outcome = Raise("KRXRateLimitError")
            /\ (r.kind = "response" /\ r.status_code \in 500..599) =>
                  outcome = Raise("KRXServerError")
            /\ (r.kind = "response" /\ r.status_code = 200 /\ r.body.json = "invalid") =>
                  outcome = Raise("KRXAPIError")
            /\ (/\ r.kind = "response"
                /\ r.status_code = 200
                /\ r.body.json # "invalid"
                /\ ~r.body.has_outblock) =>
                  outcome = Returned(<<>>)
\* ------------------------------------------------------------ the limiter
\* the acquisition of thread t took the wait branch (its sleep_time is set
\* only there, and is positive there)
Waited(t) == sleep_time[t] > 0

\* the entries of seq inside the trailing window of length period ending at T
InWindow(seq, T) ==
    Cardinality({i \in DOMAIN seq : seq[i] > T - period /\ seq[i] <= T})

\* C1: with max_calls >= 1 and period > 0, no trailing window of length
\* period ever contains more than max_calls granted acquisitions, counting
\* every timestamp ever recorded.
C1_WindowBound ==
    (max_calls >= 1 /\ period > 0) =>
        \A T \in 0..clock : InWindow(granted, T) <= max_calls

\* C2: whenever the lock is free, at most max_calls entries of the stored
\* history lie inside the trailing window; and for max_calls >= 1 the stored
\* history never holds more than max_calls entries.
C2_StoredHistoryBound ==
    /\ lock = Free => InWindow(calls, clock) <= max_calls
    /\ max_calls >= 1 => Len(calls) <= max_calls

C2_Witness ==
    /\ lock = Free
    /\ max_calls = 2
    /\ Len(granted) >= 3
    /\ Len(calls) = 2
    /\ InWindow(calls, clock) = 2

\* C3: on a fresh limiter, while no time has passed since the first
\* acquisition started, the N-th acquisition for every N <= max_calls does
\* not take the wait branch.
C3_NoWaitWithinLimit ==
    (first_call = clock /\ Len(granted) < max_calls) =>
        \A t \in Threads : pc[t] # "sleep" /\ ~Waited(t)

C3_Witness ==
    /\ first_call = clock
    /\ max_calls >= 2
    /\ Len(granted) = max_calls - 1
    /\ \E t \in Threads : pc[t] = "record" /\ ~Waited(t)

\* C4: once more than max_calls acquisitions have been recorded, at least
\* one period has passed since the first acquisition started.
C4_ExcessTakesAPeriod ==
    Len(granted) > max_calls => clock - first_call >= period

C4_Witness ==
    /\ period = MaxPeriod
    /\ max_calls >= 1
    /\ Len(granted) = max_calls + 1
    /\ \A i \in 1..max_calls : granted[i] = first_call
    /\ clock - first_call = period

\* C5: an acquisition that finds max_calls timestamps inside the window
\* waits; the wait is period - (now - oldest timestamp), it is positive and
\* at most period, it is a full period when the oldest call was made at now,
\* and the call goes on no earlier than oldest timestamp + period.
C5_WaitLength ==
    \A t \in Threads :
        /\ (pc[t] = "record" /\ ~Waited(t)) => Len(calls) < max_calls
        /\ pc[t] = "sleep" =>
              /\ Len(calls) >= max_calls
              /\ oldest[t] = calls[1]
              /\ sleep_time[t] = period - (now[t] - oldest[t])
              /\ sleep_time[t] > 0
              /\ sleep_time[t] <= period
              /\ (calls[Len(calls)] = now[t] /\ calls[1] = now[t]) => sleep_time[t] = period
        /\ (Waited(t) /\ pc[t] \in {"record", "exit", "body"}) =>
              clock >= oldest[t] + period

C5_Witness ==
    \E t \in Threads :
        /\ pc[t] \in {"exit", "body"}
        /\ Waited(t)
        /\ period >= 2
        /\ sleep_time[t] = period
        /\ clock = oldest[t] + period

\* C6 as stated: no acquisition ever ends with an exception of the limiter,
\* whatever max_calls and period the constructor was given.
C6_NeverRaises ==
    \A t \in Threads : exc[t] # "IndexError"

\* C6 as amended: with max_calls >= 1 no acquisition ever ends with an
\* exception of the limiter, whatever the period and the call history.
C6_NeverRaisesPositive ==
    max_calls >= 1 => \A t \in Threads : exc[t] # "IndexError"

C6_Witness ==
    /\ max_calls >= 1
    /\ \E t \in Threads :
          /\ entry[t] = "wait_if_needed"
          /\ pc[t] = "exit"
          /\ Waited(t)
          /\ exc[t] = "none"

\* C7: after a wait the history is empty until the new call is recorded, and
\* when that acquisition returns the history holds exactly one entry, the
\* timestamp of that call.
C7_ResetAfterWait ==
    \A t \in Threads :
        /\ (pc[t] = "record" /\ Waited(t)) => calls = <<>>
        /\ (pc[t] \in {"exit", "body"} /\ Waited(t)) =>
              /\ Len(calls) = 1
              /\ calls[1] = granted[Len(granted)]

\* a waiting acquisition is about to return and an entry it discarded is
\* still inside the trailing window
C7_Witness ==
    \E t \in Threads :
        /\ pc[t] \in {"exit", "body"}
        /\ Waited(t)
        /\ calls = <<clock>>
        /\ \E i \in 1..(Len(granted) - 1) : granted[i] > clock - period

\* one step of a decorated call, compared with what lines 66-80 of
\* wait_if_needed do to the history and to the decision to wait
C8_StepAsWaitIfNeeded ==
    \A t \in Threads :
        entry[t] \in Funcs =>
            /\ (pc[t] = "lock" /\ pc'[t] # "lock") =>
                  LET pruned == Prune(calls, clock, period)
                      blocks == /\ LimitReached(pruned, max_calls)
                                /\ pruned # <<>>
                                /\ SleepTime(period, clock, pruned) > 0
                  IN  /\ calls' = pruned
                      /\ pc'[t] = "sleep" <=> blocks
                      /\ blocks => sleep_time'[t] = SleepTime(period, clock, pruned)
                      /\ exc'[t] = "IndexError" <=>
                            (LimitReached(pruned, max_calls) /\ pruned = <<>>)
            /\ (pc[t] = "sleep" /\ pc'[t] = "record") => calls' = Reset(calls)
            /\ (pc[t] = "record" /\ pc'[t] = "body") => calls' = Append(calls, clock)

\* C8: every step of a decorated call changes the shared history and decides
\* to wait exactly as wait_if_needed would in the same state, so a decorated
\* call that finds max_calls entries inside the window waits, whichever
\* entry point recorded them.
C8_SameAccounting == [][C8_StepAsWaitIfNeeded]_vars

\* a call of func_b waits on a history recorded by max_calls calls of func_a
C8_Witness ==
    \E t \in Threads :
        /\ entry[t] = "func_b"
        /\ pc[t] = "sleep"
        /\ max_calls = 2
        /\ recorded_by = <<"func_a", "func_a">>

\* ---------------------------------------------------------- the converter
\* C9: convert_field never raises: every call returns a typed value, the
\* original string or None.
C9_ConvertFieldNeverRaises ==
    result # NotCalled => result.type \in {"None", "str", "int", "float", "datetime"}

\* the value is empty, or blanks only, or one "-" among blanks
BlankOrDash(v) ==
    \/ \A i \in DOMAIN v : v[i] = " "
    \/ \E k \in DOMAIN v : v[k] = "-" /\ \A i \in DOMAIN v \ {k} : v[i] = " "

\* C10: whatever the field name, an empty value, a value of whitespace only
\* and a value that is "-" after trimming are converted to None.
C10_NullValues ==
    (result # NotCalled /\ BlankOrDash(arg_value)) => result = None

\* " - " in a volume field, which the numeric rule would otherwise handle
C10_Witness ==
    /\ result = None
    /\ arg_value = <<" ", "-", " ">>
    /\ arg_field = <<"A", "C", "C", "_", "T", "R", "D", "V", "O", "L">>


\* the field names that end with DD, DT or DATE
DateSuffixNames ==
    {name \in FieldNames :
        \/ EndsWith(name, <<"D", "D">>)
        \/ EndsWith(name, <<"D", "T">>)
        \/ EndsWith(name, <<"D", "A", "T", "E">>)}
HasDateSuffix(name) == name \in DateSuffixNames

\* the categories in the order of the table
CategoryOrder == <<"price", "volume", "amount", "index", "rate", "ratio", "count">>

\* the category of the table named type has a pattern that occurs in the
\* upper-cased name
CategoryMatches(type, name) ==
    \E i \in DOMAIN NUMERIC_FIELD_PATTERNS :
        /\ NUMERIC_FIELD_PATTERNS[i].type = type
        /\ \E j \in DOMAIN NUMERIC_FIELD_PATTERNS[i].patterns :
              Contains(Upper(name), NUMERIC_FIELD_PATTERNS[i].patterns[j])

\* for each field name the first category of CategoryOrder that matches it,
\* or "none"
FirstCategoryOf ==
    [name \in FieldNames |->
        LET hits == {k \in DOMAIN CategoryOrder : CategoryMatches(CategoryOrder[k], name)}
        IN  IF hits = {} THEN "none"
            ELSE CategoryOrder[CHOOSE k \in hits : \A h \in hits : k <= h]]
FirstCategory(name) == FirstCategoryOf[name]

\* the value is eight decimal digits
EightDigits(v) == Len(v) = 8 /\ \A i \in 1..8 : IsDigit(v[i])

YearOf(v) == Decimal(SubSeq(v, 1, 4))
MonthOf(v) == Decimal(SubSeq(v, 5, 6))
DayOf(v) == Decimal(SubSeq(v, 7, 8))

\* eight digits YYYYMMDD that name a day of the calendar, years 1 to 9999
IsCalendarDate(v) ==
    /\ EightDigits(v)
    /\ YearOf(v) >= 1
    /\ MonthOf(v) \in 1..12
    /\ DayOf(v) >= 1
    /\ DayOf(v) <= (IF MonthOf(v) \in {4, 6, 9, 11} THEN 30
                    ELSE IF MonthOf(v) # 2 THEN 31
                    ELSE IF YearOf(v) % 4 = 0 /\ (YearOf(v) % 100 # 0 \/ YearOf(v) % 400 = 0)
                         THEN 29 ELSE 28)

\* C11: for a field name that ends with DD, DT or DATE, a raw value of eight
\* digits that is a calendar date is converted to that date, also when the
\* field name contains a substring of a numeric category.
C11_DateRuleFirst ==
    (result # NotCalled /\ HasDateSuffix(arg_field) /\ IsCalendarDate(arg_value)) =>
        result = Datetime(YearOf(arg_value), MonthOf(arg_value), DayOf(arg_value))

\* START_DD contains RT, a pattern of the rate category; 29 February of a
\* leap year
C11_Witness ==
    /\ arg_field = <<"S", "T", "A", "R", "T", "_", "D", "D">>
    /\ FirstCategory(arg_field) = "rate"
    /\ arg_value = <<"2", "0", "2", "4", "0", "2", "2", "9">>
    /\ result = Datetime(2024, 2, 29)

\* C12: for a field name that ends with a date suffix, a value that has
\* passed the null rule and is not a calendar date of eight digits (wrong
\* length, a character that is no digit, no such day) is not returned by the
\* date rule: it is converted by the numeric rule when the field name contains
\* a pattern of a numeric category, and is returned unchanged otherwise.
C12_DateFallsThrough ==
    (/\ result # NotCalled
     /\ HasDateSuffix(arg_field)
     /\ ~BlankOrDash(arg_value)
     /\ ~IsCalendarDate(arg_value)) =>
        result = IF FirstCategory(arg_field) # "none"
                 THEN NumericRule(FirstCategory(arg_field), arg_value)
                 ELSE Str(arg_value)

\* 30 February in START_DD, whose name contains RT: the rate rule makes it a
\* float
C12_Witness ==
    /\ arg_field = <<"S", "T", "A", "R", "T", "_", "D", "D">>
    /\ arg_value = <<"2", "0", "2", "4", "0", "2", "3", "0">>
    /\ result.type = "float"
    /\ result = ParseFloat(arg_value)

\* the value after the null rule and the date rule: not null, and not a
\* calendar date in a field with a date suffix
ReachesNumericRule(name, v) ==
    /\ ~BlankOrDash(v)
    /\ ~(HasDateSuffix(name) /\ IsCalendarDate(v))

\* the value without commas and surrounding blanks, read as a number
CleanedNumber(v) == ParseFloat(Strip(RemoveCommas(v)))

\* C13: a value that the null rule and the date rule leave over is converted
\* by the first category in the order price, volume, amount, index, rate,
\* ratio, count with a pattern in the upper-cased field name: when the value
\* without commas and surrounding blanks reads as a finite number, a volume
\* or count field gives the integer that is the number truncated toward
\* zero, and when it reads as a float, a price, amount, index, rate or ratio
\* field gives that float.
C13_NumericRule ==
    (result # NotCalled /\ ReachesNumericRule(arg_field, arg_value)) =>
        LET category == FirstCategory(arg_field)
            x == CleanedNumber(arg_value)
        IN  /\ (category \in {"volume", "count"} /\ x.type = "float" /\ x.kind = "finite") =>
                  result = IntValue(x.sign * (x.num \div Pow10(x.scale)))
            /\ (category \in {"price", "amount", "index", "rate", "ratio"} /\ x.type = "float") =>
                  result = x

\* VOL_RT has a pattern of volume and one of rate, volume comes first; 1.5 is
\* truncated to 1
C13_Witness ==
    /\ arg_field = <<"V", "O", "L", "_", "R", "T">>
    /\ CategoryMatches("rate", arg_field)
    /\ arg_value = <<"1", ".", "5">>
    /\ result = IntValue(1)

\* the conversion of the category cannot be done on the cleaned value: it
\* does not read as a number, or an integer is wanted and the number is nan
\* or an infinity
CannotBeParsed(category, v) ==
    LET x == CleanedNumber(v)
    IN  \/ x.type = "raise"
        \/ category \in {"volume", "count"} /\ x.kind # "finite"

\* C14: when the field name matches a numeric category and the cleaned value
\* cannot be parsed as the number of that category, convert_field returns the
\* raw string as it was received, with its commas and blanks.
C14_UnparsedIsReturned ==
    (/\ result # NotCalled
     /\ ReachesNumericRule(arg_field, arg_value)
     /\ FirstCategory(arg_field) # "none"
     /\ CannotBeParsed(FirstCategory(arg_field), arg_value)) =>
        result = Str(arg_value)

\* the field names the claim takes for plain strings: the descriptive field
\* IDX_NM, and the names with no date suffix and no pattern of a numeric
\* category
StringFieldNames ==
    {<<"I", "D", "X", "_", "N", "M">>}
        \cup {name \in FieldNames : ~HasDateSuffix(name) /\ FirstCategory(name) = "none"}

\* C15: for IDX_NM and for every field name with no date suffix and no
\* pattern of a numeric category, convert_field returns every value that is
\* not null as the string it received.
C15_StringFieldsUnchanged ==
    (/\ result # NotCalled
     /\ arg_field \in StringFieldNames
     /\ ~BlankOrDash(arg_value)) =>
        result = Str(arg_value)

\* C16: convert_response returns a list as long as its input whose i-th
\* element is the conversion of the i-th record: a mapping with the field
\* names of that record, each with the value convert_field gives for its
\* name and raw value alone; the input is left as it was.
C16_StructurePreserved ==
    response # NotCalled =>
        /\ response.type = "list"
        /\ Len(response.items) = Len(arg_data)
        /\ \A i \in DOMAIN arg_data :
              /\ Len(response.items[i]) = Len(arg_data[i])
              /\ \A j \in DOMAIN arg_data[i] :
                    /\ response.items[i][j].field = arg_data[i][j].field
                    /\ response.items[i][j].value =
                          convert_field(arg_data[i][j].field, arg_data[i][j].value)

\* ------------------------------------------------------- the limiter lock
\* the positions between "with self.lock" and the end of the with block
InsideLock == {"sleep", "record", "exit", "body"}

\* one step as C20 wants it: at most one caller is inside the with block and
\* it holds the lock; while it is inside, asleep or not, the other callers do
\* not move except to arrive at the lock, and the history is changed by no
\* one else; a caller that sleeps still finds the history it inspected
C20_StepUnderLock ==
    /\ \A t, u \in Threads : (pc[t] \in InsideLock /\ pc[u] \in InsideLock) => t = u
    /\ \A t \in Threads : pc[t] \in InsideLock <=> lock = t
    /\ \A t \in Threads :
          pc[t] \in InsideLock =>
              /\ \A u \in Threads \ {t} :
                    \/ pc'[u] = pc[u]
                    \/ pc[u] = "idle" /\ pc'[u] = "lock"
              /\ calls' # calls => pc'[t] # pc[t]
              /\ pc[t] = "sleep" =>
                    /\ oldest[t] = calls[1]
                    /\ calls = Prune(calls, now[t], period)
    /\ calls' # calls =>
          \E t \in Threads :
              /\ pc'[t] # pc[t]
              /\ lock \in {Free, t}
              /\ \A u \in Threads \ {t} : pc[u] \notin InsideLock

\* C20: an acquisition inspects, prunes, decides, sleeps and records inside
\* one "with self.lock" block: while a caller is inside, sleeping or not, no
\* other caller gets at the call history, so the acquisitions take effect
\* one after another.
C20_AcquisitionsSerialized == [][C20_StepUnderLock]_vars

\* a caller sleeps with the lock held after time has passed, and the other
\* caller is blocked at the lock
C20_Witness ==
    \E t, u \in Threads :
        /\ t # u
        /\ pc[t] = "sleep"
        /\ lock = t
        /\ clock > now[t]
        /\ pc[u] = "lock"

\* --------------------------------------------- the order of the callers
\* the i-th call was made while another thread was inside the with block
ArrivedBlocked(i) == arrivals[i] # Free

\* thread t has gone past "with self.lock"
TookLock(t) == HasCalled(t) /\ pc[t] # "lock"

\* the acquisitions that have been recorded and have not raised
RecordedCallers ==
    {t \in AllThreads : HasCalled(t) /\ pc[t] \in {"exit", "idle"} /\ exc[t] = "none"}

\* C21 as stated: of two callers that both called while a third thread held
\* the lock, the one that called first is recorded and returns first: the
\* later one has not been recorded while the earlier one has not returned.
C21_ArrivalOrder ==
    \A i, j \in DOMAIN arrivals :
        (i < j /\ ArrivedBlocked(i) /\ ArrivedBlocked(j)) =>
            (pc[j] \in {"exit", "idle"} => pc[i] = "idle")

\* one step, as C21 amended wants it: a caller goes past the lock only when
\* every caller that went past it earlier has returned, and every one of
\* those that did not raise has its timestamp in the record
C21_StepInLockOrder ==
    \A t \in AllThreads :
        (pc[t] = "lock" /\ pc'[t] # "lock") =>
            /\ \A u \in AllThreads \ {t} : TookLock(u) => pc[u] = "idle"
            /\ Len(granted) = Cardinality(RecordedCallers)

\* C21 amended: callers are served in the order in which they take the
\* lock, not in the order in which they called: a caller that takes the
\* lock finds every acquisition that took it earlier recorded and returned;
\* which of two callers blocked on the lock takes it next is not decided by
\* the order of their calls.
C21_ServedInLockOrder == [][C21_StepInLockOrder]_vars

\* two callers called while a third held the lock; the one that called
\* later has been served, after a sleep, and the earlier one still waits
C21_Witness ==
    \E i, j \in DOMAIN arrivals :
        /\ i < j
        /\ ArrivedBlocked(i)
        /\ ArrivedBlocked(j)
        /\ pc[i] = "lock"
        /\ pc[j] = "exit"
        /\ slept[Len(slept)]
        /\ Len(granted) = 2

\* ------------------------------------------------------------ termination
\* the limiter was constructed as C22 supposes
PositiveLimiter == max_calls >= 1 /\ period > 0

\* one step of an acquisition, as C22 wants it: time.sleep is entered only
\* from the lock and left only for the recording, so once per acquisition
C22_StepSleepsOnce ==
    PositiveLimiter =>
        \A t \in Threads :
            /\ (pc[t] # "sleep" /\ pc'[t] = "sleep") => pc[t] = "lock"
            /\ (pc[t] = "sleep" /\ pc'[t] # "sleep") => pc'[t] = "record"

\* C22: with max_calls >= 1 and period > 0, under fair granting of the lock
\* every caller that has called returns, without an exception; an
\* acquisition sleeps at most once, for at most period; and a lock that is
\* held is free again later.
C22_EveryAcquisitionReturns ==
    /\ \A t \in Threads :
          (PositiveLimiter /\ pc[t] # "idle") ~> (pc[t] = "idle" /\ exc[t] = "none")
    /\ \A t \in Threads : (PositiveLimiter /\ lock = t) ~> (lock = Free)
    /\ [](PositiveLimiter => \A t \in Threads : sleep_time[t] <= period)
    /\ [][C22_StepSleepsOnce]_vars

\* every thread has called and returned, all but the first after a full
\* sleep, the last of them past MaxClock, and the lock is free
C22_Witness ==
    /\ max_calls = 1
    /\ period = MaxPeriod
    /\ Len(arrivals) = NumThreads
    /\ \A t \in Threads : pc[t] = "idle" /\ exc[t] = "none"
    /\ lock = Free
    /\ Len(granted) = NumThreads
    /\ \A i \in 2..Len(slept) : slept[i]
    /\ granted[Len(granted)] = (NumThreads - 1) * MaxPeriod + MaxClock
    /\ clock > MaxClock

\* ---------------------------------------------------- the burst after a wait
\* C23: after an acquisition that slept, the next max_calls - 1
\* acquisitions do not sleep, whenever they are issued (so also when they
\* are issued at once) and however many acquisitions were granted in the
\* period before the sleep: none of them has slept, and none of them is
\* sleeping.
C23_BurstAfterWait ==
    \A i \in DOMAIN granted :
        slept[i] =>
            /\ \A j \in (i + 1)..(i + max_calls - 1) :
                  j <= Len(granted) => ~slept[j]
            /\ Len(granted) + 1 <= i + max_calls - 1 =>
                  \A t \in Threads : pc[t] # "sleep"

\* a burst of max_calls grants at the instant a sleep ended, with another
\* grant less than a period before it
C23_Witness ==
    /\ max_calls = 2
    /\ Len(granted) = 4
    /\ slept[3]
    /\ ~slept[4]
    /\ granted[4] = granted[3]
    /\ granted[2] > granted[3] - period
    /\ lock = Free

\* ------------------------------------------------------------ the pruning
\* a step in which thread t goes past "with self.lock" and prunes
Prunes(t) == pc[t] = "lock" /\ pc'[t] # "lock"

\* the pruning kept the entries of the history from the n-th on, in order
KeptFrom(n) == calls' = SubSeq(calls, n, Len(calls))

\* one step, as C24 is stated: the pruning drops the entries older than
\* now - period and keeps the others, one of age period among them
C24_StepDropsOlder ==
    \A t \in Threads :
        Prunes(t) =>
            \E n \in 1..(Len(calls) + 1) :
                /\ KeptFrom(n)
                /\ \A k \in 1..(n - 1) : calls[k] < clock - period
                /\ \A k \in n..Len(calls) : calls[k] >= clock - period

\* C24 as stated: the pruning step discards exactly the timestamps older
\* than now - period and keeps every other timestamp in its original order;
\* a timestamp whose age is exactly period is kept.
C24_PruneDropsOlder == [][C24_StepDropsOlder]_vars

\* one step, as C24 amended wants it: the pruning drops the entries that are
\* not newer than now - period and keeps the others in their order
C24_StepKeepsNewer ==
    \A t \in Threads :
        Prunes(t) =>
            \E n \in 1..(Len(calls) + 1) :
                /\ KeptFrom(n)
                /\ \A k \in 1..(n - 1) : calls[k] <= clock - period
                /\ \A k \in n..Len(calls) : calls[k] > clock - period

\* C24 amended: the pruning step discards exactly the timestamps that are
\* not newer than now - period, those of age period or more, and keeps every
\* other timestamp in its original order; a timestamp whose age is exactly
\* period is discarded.
C24_PruneKeepsNewer == [][C24_StepKeepsNewer]_vars

\* an acquisition at time 2 has pruned the history <<0, 1>> with period 2:
\* the entry of age 2 is gone, the entry of age 1 is kept, and it goes on to
\* record without a sleep
C24_Witness ==
    \E t \in Threads :
        /\ pc[t] = "record"
        /\ sleep_time[t] = 0
        /\ max_calls = 2
        /\ period = 2
        /\ now[t] = 2
        /\ granted = <<0, 1>>
        /\ calls = <<1>>

\* ------------------------------------------------- the order of the history
\* C25: in every reachable state the call history is in non-decreasing
\* order, so its first element is its minimum, and the timestamp a waiting
\* acquisition read as the oldest is the minimum of the history it waits on.
C25_ChronologicalHistory ==
    /\ \A i, j \in DOMAIN calls : i < j => calls[i] <= calls[j]
    /\ \A i \in DOMAIN calls : calls[1] <= calls[i]
    /\ \A t \in Threads :
          pc[t] = "sleep" => \A i \in DOMAIN calls : oldest[t] <= calls[i]

\* an acquisition sleeps on a history of two different timestamps, recorded
\* by two calls of different threads or of one, and has read the older one
C25_Witness ==
    \E t \in Threads :
        /\ pc[t] = "sleep"
        /\ Len(calls) = 2
        /\ calls[1] < calls[2]
        /\ oldest[t] = calls[1]
        /\ clock > calls[2]

\* ------------------------------------------------- the decorated function
\* one step, as C26 wants it, for a thread t in a decorated call
C26_StepBodyUnderLock ==
    \A t \in Threads :
        /\ (pc[t] # "body" /\ pc'[t] = "body") =>
              /\ pc[t] = "record"
              /\ lock = t
              /\ calls' = Append(calls, clock)
              /\ recorded_by'[Len(recorded_by')] = entry[t]
        /\ pc[t] = "body" =>
              /\ lock = t
              /\ entry[t] \in Funcs
              /\ calls # <<>>
              /\ calls[Len(calls)] = granted[Len(granted)]
              /\ recorded_by[Len(recorded_by)] = entry[t]
              /\ \A u \in Threads \ {t} :
                    /\ pc[u] \in {"idle", "lock"}
                    /\ pc'[u] \in {"idle", "lock"}
                    /\ pc[u] = "lock" => pc'[u] = "lock"
              /\ calls' = calls
              /\ pc'[t] # "body" =>
                    /\ pc'[t] = "idle"
                    /\ lock' = Free
                    /\ exc'[t] \in {"none", "func"}
              /\ pc'[t] = "body" => lock' = t

\* C26: the body of a decorated function runs with the limiter's lock held
\* and after the timestamp of the call was recorded; at most one body runs
\* at a time, every other caller of the limiter, decorated or not, stays
\* blocked at the lock until the body ends, and when the body returns or
\* raises the lock is released and the timestamp is still in the history.
C26_BodyUnderLock == [][C26_StepBodyUnderLock]_vars

\* a decorated function has raised: its timestamp is the history, and a
\* caller of wait_if_needed has taken the lock it released
C26_Witness ==
    \E t, u \in Threads :
        /\ pc[t] = "idle"
        /\ exc[t] = "func"
        /\ lock = u
        /\ entry[u] = "wait_if_needed"
        /\ pc[u] = "record"
        /\ Len(calls) = 1
        /\ recorded_by[1] \in Funcs
        /\ granted = calls
====
